---- MODULE Spec2Model ----
(***************************************************************************)
(* Model of backend/src/db/cmd.rs: the `db` sub-commands of Tobira.        *)
(*                                                                         *)
(* `run` dispatches a DbCommand.  Console, Dump and Restore replace the    *)
(* process image with an external utility; the other commands take one     *)
(* pooled connection.  `clear` wipes the `public` schema inside one        *)
(* serializable transaction and then clears the search index.              *)
(*                                                                         *)
(* Every `.await?` of the source is one action; a failing step is a        *)
(* nondeterministic choice of the action.  Strings that are only compared  *)
(* are TLA+ strings; strings that are formatted or percent-encoded are     *)
(* sequences of bytes.                                                     *)
(***************************************************************************)
EXTENDS Integers, Sequences, FiniteSets, TLC

VARIABLES
    cmd,          \* the parsed DbCommand
    config,       \* config.db : DbConfig
    pc,           \* position inside run / clear / run_script
    result,       \* what run returned: "none" (still running), "Ok", "Err"
    error,        \* which step produced the Err ("" if none)
    clearResult,  \* what clear returned: "none", "Ok", "Err"
    pool,         \* "none" or "created"
    conns,        \* pooled connections acquired by this dispatch
    tx,           \* the transaction of clear: "none", "open", "committed", "rolledback"
    txCount,      \* transactions started by this dispatch
    store,        \* committed state of the relational store
    view,         \* state seen and changed inside the open transaction
    index,        \* state of the search index
    tables,       \* Vec<String> returned by all_table_names
    inventory,    \* (table, rows) lines printed so far
    stdinReads,   \* lines read from the operator
    answer,       \* the line the operator typed
    stmts,        \* statements executed on the connection, in order
    logs,         \* info! messages
    execd,        \* the external command handed to exec
    execCalls,    \* calls of exec
    meiliConnects,\* connections made to the search subsystem
    indexClears,  \* calls of search::clear
    migrateCalls, \* calls of super::migrate
    script,       \* content read by run_script
    store0,       \* the store when run was called
    index0        \* the search index when run was called

vars == <<cmd, config, pc, result, error, clearResult, pool, conns, tx, txCount,
          store, view, index, tables, inventory, stdinReads, answer, stmts,
          logs, execd, execCalls, meiliConnects, indexClears, migrateCalls, script,
          store0, index0>>

(***************************************************************************)
(* Bounds                                                                  *)
(***************************************************************************)
MaxRows == 1
MaxChars == 3

(***************************************************************************)
(* Bytes and strings                                                       *)
(***************************************************************************)
\* Str literals as UTF-8 bytes
B_postgres == <<112, 111, 115, 116, 103, 114, 101, 115>>
B_tobira == <<116, 111, 98, 105, 114, 97>>
B_localhost == <<108, 111, 99, 97, 108, 104, 111, 115, 116>>
B_scheme == <<112, 111, 115, 116, 103, 114, 101, 115, 113, 108, 58, 47, 47>>
B_colon == <<58>>
B_at == <<64>>
B_slash == <<47>>
B_percent == <<37>>
HexDigits == <<48, 49, 50, 51, 52, 53, 54, 55, 56, 57, 65, 66, 67, 68, 69, 70>>

IsAlphanumeric(b) ==
    \/ b \in 48..57
    \/ b \in 65..90
    \/ b \in 97..122

\* percent_encoding::CONTROLS instead: only control and non-ASCII bytes
InControls(b) == b < 32 \/ b >= 127

\* percent_encoding::NON_ALPHANUMERIC: every byte that is not an ASCII letter or digit
InNonAlphanumeric(b) == ~IsAlphanumeric(b)

\* one byte as utf8_percent_encode emits it
EncodeByte(b) ==
    IF InNonAlphanumeric(b)
    THEN B_percent \o <<HexDigits[(b \div 16) + 1], HexDigits[(b % 16) + 1]>>
    ELSE <<b>>

RECURSIVE encode(_)
encode(s) == IF s = <<>> THEN <<>> ELSE EncodeByte(Head(s)) \o encode(Tail(s))

RECURSIVE Decimal(_)
\* Display of an unsigned integer
Decimal(n) == IF n < 10 THEN <<48 + n>> ELSE Decimal(n \div 10) \o <<48 + (n % 10)>>

\* the target database instead of the administrative one
restoreKeepsDatabase(c) == c

\* DbConfig { database: "postgres".into(), ..config.clone() }
restoreConfig(c) == [c EXCEPT !.database = B_postgres]

connection_uri(c) ==
    B_scheme \o encode(c.user) \o B_colon \o encode(c.password) \o B_at
             \o c.host \o B_colon \o Decimal(c.port) \o B_slash \o encode(c.database)


(***************************************************************************)
(* Commands, configurations, the relational store, the search index        *)
(***************************************************************************)
B_public == <<112, 117, 98, 108, 105, 99>>
B_admin == <<97, 100, 32, 109, 105, 110>>
B_password == <<112, 64, 115, 115, 47, 119, 48, 114, 100>>

Command(kind, yes, path) == [kind |-> kind, yes |-> yes, path |-> path]

\* enum DbCommand, with the flag of ClearOptions
Commands ==
    {Command("Clear", y, "") : y \in BOOLEAN}
    \cup {Command("Reset", y, "") : y \in BOOLEAN}
    \cup {Command("Script", FALSE, "fix.sql"), Command("Migrate", FALSE, ""),
          Command("Console", FALSE, ""), Command("Dump", FALSE, "db.dump"),
          Command("Restore", FALSE, "db.dump"),
          Command("UnsafeOverwriteMigrations", FALSE, "")}

DbConfig(user, password, host, port, database) ==
    [user |-> user, password |-> password, host |-> host, port |-> port,
     database |-> database]

\* configurations the dispatcher is run with
Configs ==
    {DbConfig(B_admin, B_password, B_localhost, 5432, B_tobira),
     DbConfig(B_tobira, <<>>, B_localhost, 5432, B_postgres)}

TableOrder == <<"__db_migrations", "events">>
TableNames == {TableOrder[i] : i \in 1..Len(TableOrder)}

Schema(exists, tbls, grants, comment) ==
    [exists |-> exists, tables |-> tbls, grants |-> grants, comment |-> comment]

\* the `public` schema right after `create schema public`
CreatedSchema == Schema(TRUE, <<>>, {}, "")
DroppedSchema == Schema(FALSE, <<>>, {}, "")

\* what the five statements of clear leave behind for the user `u`
EmptyPublic(u) == Schema(TRUE, <<>>, {u, B_public}, "standard public schema")

\* stores the command can be started on: any subset of the tables, any row counts
Stores ==
    UNION {{Schema(TRUE, f, {B_public}, "standard public schema")
              : f \in [S -> 0..MaxRows]} : S \in SUBSET TableNames}

NoView == DroppedSchema

Stmt(sql, arg) == [sql |-> sql, arg |-> arg]
S_drop == Stmt("drop schema public cascade", <<>>)
S_create == Stmt("create schema public", <<>>)
S_grantUser(u) == Stmt("grant all on schema public to {}", u)
S_grantPublic == Stmt("grant all on schema public to public", <<>>)
S_comment == Stmt("comment on schema public is 'standard public schema'", <<>>)

\* whether the server accepts the statement in state v
CanApply(st, v) ==
    IF st.sql = "create schema public" THEN ~v.exists ELSE v.exists

\* effect of one statement of clear on the state inside the transaction
Apply(st, v) ==
    IF st.sql = "drop schema public cascade" THEN DroppedSchema
    ELSE IF st.sql = "create schema public" THEN CreatedSchema
    ELSE IF st.sql = "grant all on schema public to {}"
        THEN [v EXCEPT !.grants = @ \cup {st.arg}]
    ELSE IF st.sql = "grant all on schema public to public"
        THEN [v EXCEPT !.grants = @ \cup {B_public}]
    ELSE [v EXCEPT !.comment = "standard public schema"]

\* query::all_table_names: the names of the tables, in a fixed order
all_table_names(v) == SelectSeq(TableOrder, LAMBDA n : n \in DOMAIN v.tables)

\* super::migrate on success: the migrations table exists and is filled
MigrateEffect(s) ==
    [s EXCEPT !.exists = TRUE,
              !.tables = [n \in DOMAIN s.tables \cup {"__db_migrations"} |->
                             IF n = "__db_migrations" THEN 1 ELSE s.tables[n]]]

\* unsafe_overwrite_migrations on success: rows are updated, unknown ones deleted
OverwriteEffects(s) ==
    {[s EXCEPT !.tables["__db_migrations"] = r] : r \in 0..s.tables["__db_migrations"]}

\* search::clear that failed: nothing or only a part was removed
IndexAfterFailedClear(i) == IF i = "populated" THEN {"populated", "partial"} ELSE {i}

\* SQL scripts the operator may pass: each a batch of statements on one table
ScriptStmt(op, t) == [op |-> op, t |-> t]
Scripts ==
    {<<>>,
     <<ScriptStmt("delete", "events")>>,
     <<ScriptStmt("drop", "events"), ScriptStmt("delete", "__db_migrations")>>}

ScriptCanApply(st, s) == s.exists /\ st.t \in DOMAIN s.tables

ScriptApply(st, s) ==
    IF st.op = "delete" THEN [s EXCEPT !.tables[st.t] = 0]
    ELSE [s EXCEPT !.tables = [n \in DOMAIN s.tables \ {st.t} |-> s.tables[n]]]

RECURSIVE RunBatch(_, _)
\* the store after the statements of a batch; "failed" marks a rejected statement
RunBatch(b, s) ==
    IF b = <<>> THEN [ok |-> TRUE, store |-> s]
    ELSE IF ~ScriptCanApply(Head(b), s) THEN [ok |-> FALSE, store |-> s]
    ELSE RunBatch(Tail(b), ScriptApply(Head(b), s))

\* lines the operator may type (without the line terminator)
Answers == {"yes", "Yes", "y", "", "no"}

\* crate::cmd::prompt_for_yes: Ok only for the exact token
prompt_for_yes(line) == IF line = "yes" THEN "Ok" ELSE "Err"

\* an anyhow error: the context message, the program it names, the io::ErrorKind below
NoError == [context |-> "", program |-> "", cause |-> ""]
Error(context) == [context |-> context, program |-> "", cause |-> ""]
NoExec == [started |-> FALSE, program |-> "", args |-> <<>>]

Lit(s) == [lit |-> s, bytes |-> <<>>]
Bytes(b) == [lit |-> "", bytes |-> b]


(***************************************************************************)
(* run: commands that replace the process                                  *)
(***************************************************************************)
ExecOutcomes == {"Success", "NotFound", "PermissionDenied", "InvalidInput", "Other"}

\* the arm for Restore is missing from the first match
IsDelegatedWithoutRestore(c) == c.kind \in {"Console", "Dump"}

\* the match of run that returns before the pool is created
IsDelegated(c) == c.kind \in {"Console", "Dump", "Restore"}

\* Command::new(..).arg(..) of console, dump and restore
console(c) == [program |-> "psql", args |-> <<Bytes(connection_uri(c))>>]

dump(c, path) ==
    [program |-> "pg_dump",
     args |-> <<Lit("--dbname"), Bytes(connection_uri(c)), Lit("--format"),
                Lit("custom"), Lit("--file"), Lit(path)>>]

restore(c, path) ==
    [program |-> "pg_restore",
     args |-> <<Lit("--dbname"), Bytes(connection_uri(restoreConfig(c))),
                Lit("--clean"), Lit("--if-exists"), Lit("--create"), Lit(path)>>]

\* the arm for PermissionDenied is missing
ExecMessageWithoutPermission(kind) ==
    IF kind = "NotFound" THEN "{program} was not found in your PATH"
    ELSE "an error occured while trying to execute {program}"

\* the message fork_command attaches to a failed exec (without the backticks)
ExecMessage(kind) ==
    IF kind = "NotFound" THEN "{program} was not found in your PATH"
    ELSE IF kind = "PermissionDenied"
        THEN "you don't have sufficient permissions to execute {program}"
    ELSE "an error occured while trying to execute {program}"

\* fork_command: exec replaces the process, or returns the error
fork_command(command, outcome) ==
    /\ execd' = [started |-> outcome = "Success", program |-> command.program,
                 args |-> command.args]
    /\ execCalls' = execCalls + 1
    /\ IF outcome = "Success"
       THEN pc' = "replaced" /\ result' = "none" /\ error' = NoError
       ELSE /\ pc' = "done"
            /\ result' = "Err"
            /\ error' = [context |-> ExecMessage(outcome), program |-> command.program,
                         cause |-> outcome]
    /\ UNCHANGED <<cmd, config, store0, index0, clearResult, pool, conns, tx, txCount, store, view,
                   index, tables, inventory, stdinReads, answer, stmts, logs,
                   meiliConnects, indexClears, migrateCalls, script>>

Console ==
    /\ pc = "run" /\ IsDelegated(cmd) /\ cmd.kind = "Console"
    /\ \E o \in ExecOutcomes : fork_command(console(config), o)

Dump ==
    /\ pc = "run" /\ IsDelegated(cmd) /\ cmd.kind = "Dump"
    /\ \E o \in ExecOutcomes : fork_command(dump(config, cmd.path), o)

Restore ==
    /\ pc = "run" /\ IsDelegated(cmd) /\ cmd.kind = "Restore"
    /\ \E o \in ExecOutcomes : fork_command(restore(config, cmd.path), o)

(***************************************************************************)
(* run: commands that use a pooled connection                              *)
(***************************************************************************)
\* run returns res; `why` tells which step failed
RunReturns(res, why) ==
    /\ pc' = "done"
    /\ result' = res
    /\ error' = why

\* the arm of the second match of run
Dispatch(c) ==
    IF c.kind \in {"Clear", "Reset"} THEN "tx_start"
    ELSE IF c.kind = "Migrate" THEN "migrate"
    ELSE IF c.kind = "Script" THEN "read_script"
    ELSE IF c.kind = "UnsafeOverwriteMigrations" THEN "overwrite"
    ELSE "unreachable"

\* the error of create_pool is only reported and run goes on
afterCreatePoolIgnoringFailure(ok) == "pool_get"

\* `create_pool(&config.db).await?`
afterCreatePool(ok) == IF ok THEN "pool_get" ELSE "done"

\* a connection that could not be acquired is asked for again
afterPoolGetRetrying(ok, c) == IF ok THEN Dispatch(c) ELSE "pool_get"

\* `pool.get().await?`, then the second match of run
afterPoolGet(ok, c) == IF ok THEN Dispatch(c) ELSE "done"

\* a step of run failed with `why`: run returns, unless `next` says it goes on
RunFails(why, next) ==
    IF next = "done"
    THEN RunReturns("Err", why)
    ELSE /\ pc' = next
         /\ error' = why
         /\ UNCHANGED result

CreatePool ==
    /\ pc = "run" /\ ~IsDelegated(cmd)
    /\ \/ /\ pool' = "created"
          /\ pc' = afterCreatePool(TRUE)
          /\ UNCHANGED <<result, error>>
       \/ /\ RunFails(Error("create_pool"), afterCreatePool(FALSE))
          /\ UNCHANGED pool
    /\ UNCHANGED <<cmd, config, store0, index0, clearResult, conns, tx, txCount, store, view, index,
                   tables, inventory, stdinReads, answer, stmts, logs, execd, execCalls,
                   meiliConnects, indexClears, migrateCalls, script>>

PoolGet ==
    /\ pc = "pool_get"
    /\ \/ /\ conns' = conns + 1
          /\ pc' = afterPoolGet(TRUE, cmd)
          /\ UNCHANGED <<result, error>>
       \/ /\ RunFails(Error("pool.get"), afterPoolGet(FALSE, cmd))
          /\ UNCHANGED conns
    /\ UNCHANGED <<cmd, config, store0, index0, clearResult, pool, tx, txCount, store, view, index,
                   tables, inventory, stdinReads, answer, stmts, logs, execd, execCalls,
                   meiliConnects, indexClears, migrateCalls, script>>

(***************************************************************************)
(* clear                                                                   *)
(***************************************************************************)
\* the transaction handle is leaked (mem::forget) instead of dropped
dropTxLeaks(t) == t

\* Drop of tokio_postgres::Transaction: a transaction still open is rolled back
dropTx(t) == IF t = "open" THEN "rolledback" ELSE t

\* the flag is not consulted
confirmationAlways(yes) == TRUE

\* `if !yes`
confirmationRequired(yes) == ~yes

\* the result of the prompt is dropped instead of propagated
promptResultIgnored(line) == TRUE

\* `crate::cmd::prompt_for_yes()?`: clear goes on only after an Ok
promptProceeds(line) == prompt_for_yes(line) = "Ok"

\* Reset stops after clear
afterClearNeverMigrates(kind, res) == "done"

\* the result of clear is dropped instead of propagated
afterClearIgnoringResult(kind, res) == IF kind = "Reset" THEN "migrate" ELSE "done"

\* `clear(..).await?` in the arms Clear and Reset of run: where run goes next
afterClear(kind, res) ==
    IF res = "Err" THEN "done"
    ELSE IF kind = "Reset" THEN "migrate"
    ELSE "done"

\* the transaction is dropped without a commit
commitForgotten(v, s) == s

\* tx.commit() that succeeded: the changes of the transaction become the store
commitStore(v, s) == v

\* clear returns res while its transaction is in state t; `tx` goes out of scope
ClearReturns(res, why, t) ==
    LET next == afterClear(cmd.kind, res) IN
    /\ clearResult' = res
    /\ tx' = dropTx(t)
    /\ view' = NoView
    /\ pc' = next
    /\ result' = IF next = "done" THEN res ELSE "none"
    /\ error' = why

TxStart ==
    /\ pc = "tx_start"
    /\ \/ /\ tx' = "open"
          /\ txCount' = txCount + 1
          /\ view' = store
          /\ pc' = "all_table_names"
          /\ UNCHANGED <<result, error, clearResult>>
       \/ /\ ClearReturns("Err", Error("tx.start"), tx)
          /\ UNCHANGED txCount
    /\ UNCHANGED <<cmd, config, store0, index0, pool, conns, store, index, tables, inventory,
                   stdinReads, answer, stmts, logs, execd, execCalls, meiliConnects,
                   indexClears, migrateCalls, script>>

AllTableNames ==
    /\ pc = "all_table_names"
    /\ \/ /\ tables' = all_table_names(view)
          /\ pc' = "count_rows"
          /\ UNCHANGED <<result, error, clearResult, tx, view>>
       \/ /\ ClearReturns("Err", Error("all_table_names"), tx)
          /\ UNCHANGED tables
    /\ UNCHANGED <<cmd, config, store0, index0, pool, conns, txCount, store, index, inventory,
                   stdinReads, answer, stmts, logs, execd, execCalls, meiliConnects,
                   indexClears, migrateCalls, script>>

\* one turn of `for name in &tables`
CountRows ==
    /\ pc = "count_rows"
    /\ Len(inventory) < Len(tables)
    /\ LET name == tables[Len(inventory) + 1] IN
       \/ /\ inventory' = Append(inventory, <<name, view.tables[name]>>)
          /\ UNCHANGED <<pc, result, error, clearResult, tx, view>>
       \/ /\ ClearReturns("Err", Error("query_one"), tx)
          /\ UNCHANGED inventory
    /\ UNCHANGED <<cmd, config, store0, index0, pool, conns, txCount, store, index, tables,
                   stdinReads, answer, stmts, logs, execd, execCalls, meiliConnects,
                   indexClears, migrateCalls, script>>

\* the confirmation gate between the inventory and the first statement
Confirm ==
    /\ pc = "count_rows"
    /\ Len(inventory) = Len(tables)
    /\ IF confirmationRequired(cmd.yes)
       THEN \E line \in Answers :
              /\ stdinReads' = stdinReads + 1
              /\ answer' = line
              /\ IF promptProceeds(line)
                 THEN /\ pc' = "drop"
                      /\ UNCHANGED <<result, error, clearResult, tx, view>>
                 ELSE ClearReturns("Err", Error("prompt_for_yes"), tx)
       ELSE /\ pc' = "drop"
            /\ UNCHANGED <<stdinReads, answer, result, error, clearResult, tx, view>>
    /\ UNCHANGED <<cmd, config, store0, index0, pool, conns, txCount, store, index, tables,
                   inventory, stmts, logs, execd, execCalls, meiliConnects, indexClears,
                   migrateCalls, script>>

\* the statement is run on the connection, outside the transaction
executeOutsideTx(st, s) == IF CanApply(st, s) THEN Apply(st, s) ELSE s

\* the statements are run on `tx`: nothing is committed by them
storeAfterExecute(st, s) == s

\* `tx.execute(st, &[]).await?`
Execute(st, next) ==
    /\ store' = storeAfterExecute(st, store)
    /\ \/ /\ CanApply(st, view)
          /\ view' = Apply(st, view)
          /\ stmts' = Append(stmts, [stmt |-> st, ok |-> TRUE])
          /\ pc' = next
          /\ UNCHANGED <<result, error, clearResult, tx>>
       \/ /\ stmts' = Append(stmts, [stmt |-> st, ok |-> FALSE])
          /\ ClearReturns("Err", Error("tx.execute"), tx)
    /\ UNCHANGED <<cmd, config, store0, index0, pool, conns, txCount, index, tables,
                   inventory, stdinReads, answer, logs, execd, execCalls, meiliConnects,
                   indexClears, migrateCalls, script>>

DropSchema ==
    /\ pc = "drop"
    /\ Execute(S_drop, "create")

CreateSchema ==
    /\ pc = "create"
    /\ Execute(S_create, "grant_user")

\* the grant to the role public is left out
GrantUserOnly ==
    /\ pc = "grant_user"
    /\ Execute(S_grantUser(config.user), "comment")

GrantUser ==
    /\ pc = "grant_user"
    /\ Execute(S_grantUser(config.user), "grant_public")

GrantPublic ==
    /\ pc = "grant_public"
    /\ Execute(S_grantPublic, "comment")

CommentSchema ==
    /\ pc = "comment"
    /\ Execute(S_comment, "commit")

\* the error of the commit is dropped and clear goes on
afterCommitIgnoringFailure(ok) == "meili_connect"

\* `tx.commit().await.context(..)?`: clear goes on only after a commit that succeeded
afterCommit(ok) == IF ok THEN "meili_connect" ELSE "return"

Commit ==
    /\ pc = "commit"
    /\ \/ /\ store' = commitStore(view, store)
          /\ tx' = "committed"
          /\ view' = NoView
          /\ logs' = Append(logs, "Dropped and recreated schema 'public'")
          /\ pc' = afterCommit(TRUE)
          /\ UNCHANGED <<result, error, clearResult>>
       \/ \E applied \in BOOLEAN :
          \* the server may have committed although the client saw an error
          /\ store' = IF applied THEN view ELSE store
          /\ UNCHANGED logs
          /\ IF afterCommit(FALSE) = "return"
             THEN ClearReturns("Err", Error("failed to commit clear transaction"),
                               IF applied THEN "committed" ELSE "rolledback")
             ELSE /\ pc' = afterCommit(FALSE)
                  /\ tx' = IF applied THEN "committed" ELSE "rolledback"
                  /\ view' = NoView
                  /\ UNCHANGED <<result, error, clearResult>>
    /\ UNCHANGED <<cmd, config, store0, index0, pool, conns, txCount, index, tables, inventory,
                   stdinReads, answer, stmts, execd, execCalls, meiliConnects, indexClears,
                   migrateCalls, script>>

MeiliConnect ==
    /\ pc = "meili_connect"
    /\ \/ /\ meiliConnects' = meiliConnects + 1
          /\ pc' = "search_clear"
          /\ UNCHANGED <<result, error, clearResult, tx, view>>
       \/ /\ ClearReturns("Err", Error("meili.connect"), tx)
          /\ UNCHANGED meiliConnects
    /\ UNCHANGED <<cmd, config, store0, index0, pool, conns, txCount, store, index, tables,
                   inventory, stdinReads, answer, stmts, logs, execd, execCalls, indexClears,
                   migrateCalls, script>>

SearchClear ==
    /\ pc = "search_clear"
    /\ indexClears' = indexClears + 1
    /\ \/ /\ index' = "empty"
          /\ logs' = Append(logs, "Cleared search index")
          /\ ClearReturns("Ok", NoError, tx)
       \/ /\ index' \in IndexAfterFailedClear(index)
          /\ ClearReturns("Err", Error("failed to clear search index"), tx)
          /\ UNCHANGED logs
    /\ UNCHANGED <<cmd, config, store0, index0, pool, conns, txCount, store, tables, inventory,
                   stdinReads, answer, stmts, execd, execCalls, meiliConnects, migrateCalls,
                   script>>

(***************************************************************************)
(* migrate, run_script, unsafe_overwrite_migrations                        *)
(***************************************************************************)
Migrate ==
    /\ pc = "migrate"
    /\ migrateCalls' = migrateCalls + 1
    /\ \/ /\ store' = MigrateEffect(store)
          /\ RunReturns("Ok", NoError)
       \/ /\ RunReturns("Err", Error("migrate"))
          /\ UNCHANGED store
    /\ UNCHANGED <<cmd, config, store0, index0, clearResult, pool, conns, tx, txCount, view, index,
                   tables, inventory, stdinReads, answer, stmts, logs, execd, execCalls,
                   meiliConnects, indexClears, script>>

NoScript == [read |-> FALSE, text |-> <<>>]

\* one context for both failures
scriptContextShared(stage) == "failed to run script"

\* the `.context(..)` of the two steps of run_script
scriptContext(stage) ==
    IF stage = "read" THEN "failed to read script file '{}'" ELSE "failed to execute script"

ReadScript ==
    /\ pc = "read_script"
    /\ \/ /\ \E text \in Scripts : script' = [read |-> TRUE, text |-> text]
          /\ pc' = "batch_execute"
          /\ UNCHANGED <<result, error>>
       \/ /\ RunReturns("Err", Error(scriptContext("read")))
          /\ UNCHANGED script
    /\ UNCHANGED <<cmd, config, store0, index0, clearResult, pool, conns, tx, txCount, store, view,
                   index, tables, inventory, stdinReads, answer, stmts, logs, execd, execCalls,
                   meiliConnects, indexClears, migrateCalls>>

BatchExecute ==
    /\ pc = "batch_execute"
    /\ LET r == RunBatch(script.text, store) IN
       \/ /\ r.ok
          /\ store' = r.store
          /\ stmts' = Append(stmts, [stmt |-> Stmt("batch", script.text), ok |-> TRUE])
          /\ logs' = Append(logs, "Successfully ran SQL script")
          /\ RunReturns("Ok", NoError)
       \/ /\ store' \in {store, r.store}
          /\ stmts' = Append(stmts, [stmt |-> Stmt("batch", script.text), ok |-> FALSE])
          /\ RunReturns("Err", Error(scriptContext("execute")))
          /\ UNCHANGED logs
    /\ UNCHANGED <<cmd, config, store0, index0, clearResult, pool, conns, tx, txCount, view, index,
                   tables, inventory, stdinReads, answer, execd, execCalls, meiliConnects,
                   indexClears, migrateCalls, script>>

UnsafeOverwriteMigrations ==
    /\ pc = "overwrite"
    /\ \/ /\ "__db_migrations" \in DOMAIN store.tables
          /\ store' \in OverwriteEffects(store)
          /\ RunReturns("Ok", NoError)
       \/ /\ RunReturns("Err", Error("unsafe_overwrite_migrations"))
          /\ UNCHANGED store
    /\ UNCHANGED <<cmd, config, store0, index0, clearResult, pool, conns, tx, txCount, view, index,
                   tables, inventory, stdinReads, answer, stmts, logs, execd, execCalls,
                   meiliConnects, indexClears, migrateCalls, script>>

(***************************************************************************)
(* Specifications                                                          *)
(***************************************************************************)
Idle ==
    /\ pc = "run" /\ result = "none" /\ error = NoError /\ clearResult = "none"
    /\ pool = "none" /\ conns = 0 /\ tx = "none" /\ txCount = 0
    /\ view = NoView /\ tables = <<>> /\ inventory = <<>>
    /\ stdinReads = 0 /\ answer = "" /\ stmts = <<>> /\ logs = <<>>
    /\ execd = NoExec /\ execCalls = 0 /\ meiliConnects = 0 /\ indexClears = 0
    /\ migrateCalls = 0 /\ script = NoScript

Init ==
    /\ cmd \in Commands
    /\ config \in Configs
    /\ store \in Stores
    /\ index \in {"populated", "empty"}
    /\ store0 = store
    /\ index0 = index
    /\ Idle

Next ==
    \/ Console \/ Dump \/ Restore
    \/ CreatePool \/ PoolGet
    \/ TxStart \/ AllTableNames \/ CountRows \/ Confirm
    \/ DropSchema \/ CreateSchema \/ GrantUser \/ GrantPublic \/ CommentSchema
    \/ Commit \/ MeiliConnect \/ SearchClear
    \/ Migrate \/ ReadScript \/ BatchExecute \/ UnsafeOverwriteMigrations

Spec == Init /\ [][Next]_vars

(***************************************************************************)
(* The connection URI over many configurations                             *)
(***************************************************************************)
\* characters of the credential fields, each as its UTF-8 bytes:
\* A  4  %  /  e-acute
Chars == {<<65>>, <<52>>, <<37>>, <<47>>, <<195, 169>>}

RECURSIVE StringsOf(_)
\* the strings of exactly n characters
StringsOf(n) ==
    IF n = 0 THEN {<<>>}
    ELSE {c \o t : c \in Chars, t \in StringsOf(n - 1)}

\* host and port are not encoded: an IPv6 literal and a socket directory too
B_ipv6 == <<58, 58, 49>>
B_socketDir == <<47, 116, 109, 112>>
HostPorts == {<<B_localhost, 5432>>, <<B_ipv6, 80>>, <<B_socketDir, 0>>}

\* configurations whose user, password and database hold up to MaxChars
\* characters together
WideConfigs ==
    UNION {{DbConfig(u, p, hp[1], hp[2], d)
              : u \in StringsOf(l[1]), p \in StringsOf(l[2]),
                d \in StringsOf(l[3]), hp \in HostPorts}
             : l \in {m \in (0..MaxChars) \X (0..MaxChars) \X (0..MaxChars)
                         : m[1] + m[2] + m[3] <= MaxChars}}

DelegatedCommands == {c \in Commands : c.kind \in {"Console", "Dump", "Restore"}}

InitUri ==
    /\ cmd \in DelegatedCommands
    /\ config \in WideConfigs
    /\ store \in {Schema(TRUE, <<>>, {B_public}, "standard public schema")}
    /\ index = "empty"
    /\ store0 = store
    /\ index0 = index
    /\ Idle

NextUri == Console \/ Dump \/ Restore

SpecUri == InitUri /\ [][NextUri]_vars

(***************************************************************************)
(* Reading a connection URI back                                           *)
(***************************************************************************)
IsHexDigit(b) == b \in 48..57 \/ b \in 65..70 \/ b \in 97..102

HexValue(b) == IF b \in 48..57 THEN b - 48 ELSE IF b \in 65..70 THEN b - 55 ELSE b - 87

IsEscapeAt(s, i) ==
    /\ s[i] = 37
    /\ i + 2 <= Len(s)
    /\ IsHexDigit(s[i + 1])
    /\ IsHexDigit(s[i + 2])

RECURSIVE PercentDecodeFrom(_, _)
PercentDecodeFrom(s, i) ==
    IF i > Len(s) THEN <<>>
    ELSE IF IsEscapeAt(s, i)
        THEN <<16 * HexValue(s[i + 1]) + HexValue(s[i + 2])>> \o PercentDecodeFrom(s, i + 3)
    ELSE <<s[i]>> \o PercentDecodeFrom(s, i + 1)

\* percent-decoding as a URI reader does it
PercentDecode(s) == PercentDecodeFrom(s, 1)

\* only letters, digits and complete %XX escapes
FullyEscaped(s) ==
    \A i \in 1..Len(s) :
        \/ IsAlphanumeric(s[i])
        \/ IsEscapeAt(s, i)

Positions(s, b, from, to) == {i \in from..to : s[i] = b}
FirstOf(S) == CHOOSE i \in S : \A j \in S : i <= j
LastOf(S) == CHOOSE i \in S : \A j \in S : i >= j

HasUriShape(u) ==
    /\ Len(u) > Len(B_scheme)
    /\ SubSeq(u, 1, Len(B_scheme)) = B_scheme
    /\ Positions(u, 58, Len(B_scheme) + 1, Len(u)) # {}
    /\ LET c1 == FirstOf(Positions(u, 58, Len(B_scheme) + 1, Len(u))) IN
       /\ Positions(u, 64, c1 + 1, Len(u)) # {}
       /\ LET a == FirstOf(Positions(u, 64, c1 + 1, Len(u))) IN
          /\ Positions(u, 47, a + 1, Len(u)) # {}
          /\ Positions(u, 58, a + 1, LastOf(Positions(u, 47, a + 1, Len(u)))) # {}

\* the five fields of postgresql://<user>:<password>@<host>:<port>/<database>:
\* user up to the first colon, password up to the first @, database after the
\* last slash, port after the last colon before it
UriFields(u) ==
    LET c1 == FirstOf(Positions(u, 58, Len(B_scheme) + 1, Len(u)))
        a == FirstOf(Positions(u, 64, c1 + 1, Len(u)))
        sl == LastOf(Positions(u, 47, a + 1, Len(u)))
        c2 == LastOf(Positions(u, 58, a + 1, sl))
    IN  [user |-> SubSeq(u, Len(B_scheme) + 1, c1 - 1),
         password |-> SubSeq(u, c1 + 1, a - 1),
         host |-> SubSeq(u, a + 1, c2 - 1),
         port |-> SubSeq(u, c2 + 1, sl - 1),
         database |-> SubSeq(u, sl + 1, Len(u))]

\* the URI among the arguments handed to exec
UriArg(e) == IF e.program = "psql" THEN e.args[1].bytes ELSE e.args[2].bytes

(***************************************************************************)
(* Properties                                                              *)
(***************************************************************************)
ClearCommand == cmd.kind \in {"Clear", "Reset"}

\* the operator was asked and typed something else than the token yes
Declined == ClearCommand /\ ~cmd.yes /\ stdinReads > 0 /\ answer # "yes"

\* C1: with skipConfirmation=false and an answer other than the literal yes
\* (Yes, y, the empty line, ...) no destructive statement is executed, the
\* transaction is never committed and the store stays as it was before the call.
C1_DeclineChangesNothing ==
    Declined =>
        /\ stmts = <<>>
        /\ tx # "committed"
        /\ store = store0
        /\ logs = <<>>

C1_Witness ==
    /\ Declined
    /\ cmd.kind = "Clear"
    /\ answer = "Yes"
    /\ clearResult # "none"
    /\ DOMAIN store0.tables = TableNames
    /\ store0.tables["events"] > 0

\* C2: in a Reset whose confirmation the operator declines, Migrate is never
\* started.
C2_DeclinedResetNeverMigrates ==
    (Declined /\ cmd.kind = "Reset") => (migrateCalls = 0 /\ pc # "migrate")

C2_Witness ==
    /\ Declined
    /\ cmd.kind = "Reset"
    /\ answer = "no"
    /\ pc = "done"

\* C3: a declined confirmation is not an error: clear, and run for the Clear
\* command, return success / not-confirmed instead of a failure, and neither
\* the store nor the search index is changed.
C3_DeclineIsNotAnError ==
    (Declined /\ cmd.kind = "Clear" /\ pc = "done") =>
        /\ clearResult # "Err"
        /\ result # "Err"
        /\ store = store0
        /\ index = index0
        /\ indexClears = 0

\* C4: for Console, Dump and Restore no pool is created and no connection is
\* acquired before or when the external process starts, and after a failed
\* exec run returns the failure without creating a pool or touching the store.
C4_DelegatedCommandsHoldNoConnection ==
    cmd.kind \in {"Console", "Dump", "Restore"} =>
        /\ pool = "none"
        /\ conns = 0
        /\ tx = "none"
        /\ txCount = 0
        /\ stmts = <<>>
        /\ store = store0
        /\ pc \in {"run", "replaced", "done"}
        /\ (pc = "replaced") = execd.started
        /\ (pc = "done") => (result = "Err" /\ ~execd.started /\ execd.program # "")

C4_Witness ==
    /\ cmd.kind = "Restore"
    /\ pc = "done"
    /\ result = "Err"
    /\ execd.program = "pg_restore"

\* C5: the URI handed to the restore utility names the administrative
\* database postgres, whatever DbConfig.database is, with the user, password,
\* host and port of the configuration; Console and Dump get the URI of the
\* configured database.
C5_RestoreUsesAdministrativeDatabase ==
    execd.program # "" =>
        /\ HasUriShape(UriArg(execd))
        /\ LET f == UriFields(UriArg(execd)) IN
           /\ PercentDecode(f.user) = config.user
           /\ PercentDecode(f.password) = config.password
           /\ f.host = config.host
           /\ f.port = Decimal(config.port)
           /\ PercentDecode(f.database) =
                 IF execd.program = "pg_restore" THEN B_postgres ELSE config.database

C5_Witness ==
    /\ execd.program = "pg_restore"
    /\ config.database # B_postgres
    /\ config.database # <<>>
    /\ PercentDecode(UriFields(UriArg(execd)).database) = B_postgres

\* a step of clear failed before the commit
FailedBeforeCommit ==
    /\ clearResult = "Err"
    /\ error.context \in {"tx.start", "all_table_names", "query_one", "tx.execute"}

\* C6: when starting the transaction, listing the tables, counting rows or one
\* of the five statements fails, clear returns a failure, the transaction is
\* rolled back, the store is as before the call and the search index is not
\* touched.
C6_FailureBeforeCommitRollsBack ==
    FailedBeforeCommit =>
        /\ tx \in {"none", "rolledback"}
        /\ (tx = "none") = (error.context = "tx.start")
        /\ store = store0
        /\ index = index0
        /\ meiliConnects = 0
        /\ indexClears = 0
        /\ result = "Err"
        /\ pc = "done"

C6_Witness ==
    /\ clearResult = "Err"
    /\ error.context = "tx.execute"
    /\ Len(stmts) = 5
    /\ tx = "rolledback"
    /\ store0.tables # <<>>

\* C7: Clear with skipConfirmation=true, when no step fails, reads no operator
\* input and ends with exactly one empty public schema and the transaction
\* committed.
C7_SkipConfirmationClears ==
    (ClearCommand /\ cmd.yes /\ clearResult = "Ok" /\ migrateCalls = 0) =>
        /\ stdinReads = 0
        /\ store = EmptyPublic(config.user)
        /\ store.tables = <<>>
        /\ tx = "committed"
        /\ txCount = 1

C7_Witness ==
    /\ cmd.kind = "Clear"
    /\ cmd.yes
    /\ pc = "done"
    /\ result = "Ok"
    /\ DOMAIN store0.tables = TableNames

\* C8: on every path by which clear returns, the transaction it opened is no
\* longer open: it was committed or rolled back.
C8_NoTransactionLeftOpen ==
    clearResult # "none" =>
        /\ tx # "open"
        /\ (txCount > 0) => tx \in {"committed", "rolledback"}

C8_Witness ==
    /\ clearResult = "Err"
    /\ error.context = "prompt_for_yes"
    /\ tx = "rolledback"

\* C9: when connecting to the search subsystem or clearing the index fails
\* after the commit, Clear returns a failure, the wipe stays in effect and the
\* state is the partial one: public schema empty, index not confirmed empty.
C9_SearchFailureKeepsWipe ==
    (clearResult = "Err" /\ error.context \in {"meili.connect",
                                               "failed to clear search index"}) =>
        /\ result = "Err"
        /\ pc = "done"
        /\ tx = "committed"
        /\ store = EmptyPublic(config.user)
        /\ logs = <<"Dropped and recreated schema 'public'">>
        /\ (error.context = "meili.connect") => (index = index0 /\ indexClears = 0)

C9_Witness ==
    /\ clearResult = "Err"
    /\ error.context = "failed to clear search index"
    /\ store0.tables # <<>>
    /\ index = "partial"

NonAlphanumericCount(s) == Cardinality({i \in 1..Len(s) : ~IsAlphanumeric(s[i])})

\* C10: the URI has the form postgresql://<user>:<password>@<host>:<port>/<database>;
\* percent-decoding the user, password and database fields gives back the
\* configured values, every character of them outside [A-Za-z0-9] is
\* percent-escaped, and host and port are inserted as they are.
C10_UriRoundTrip ==
    execd.program \in {"psql", "pg_dump"} =>
        /\ HasUriShape(UriArg(execd))
        /\ LET f == UriFields(UriArg(execd)) IN
           /\ FullyEscaped(f.user)
           /\ FullyEscaped(f.password)
           /\ FullyEscaped(f.database)
           /\ PercentDecode(f.user) = config.user
           /\ PercentDecode(f.password) = config.password
           /\ PercentDecode(f.database) = config.database
           /\ Len(f.user) = Len(config.user) + 2 * NonAlphanumericCount(config.user)
           /\ Len(f.password) = Len(config.password) + 2 * NonAlphanumericCount(config.password)
           /\ Len(f.database) = Len(config.database) + 2 * NonAlphanumericCount(config.database)
           /\ f.host = config.host
           /\ f.port = Decimal(config.port)

C10_Witness ==
    /\ execd.program = "psql"
    /\ \E i \in 1..Len(config.password) : config.password[i] = 37
    /\ \E i \in 1..Len(config.user) : config.user[i] = 47
    /\ config.host = B_ipv6

\* C11: a failed exec of psql, pg_dump or pg_restore makes fork_command return
\* a failure whose message names the program and is the not-found message for
\* NotFound, the permission message for PermissionDenied and the unspecified
\* message for every other kind; exec is tried once, and after a successful
\* exec nothing is returned.
C11_ExecFailureIsClassified ==
    /\ execCalls <= 1
    /\ (execCalls = 1) = (execd.program # "")
    /\ execd.program # "" =>
          /\ execd.program \in {"psql", "pg_dump", "pg_restore"}
          /\ execd.started => (pc = "replaced" /\ result = "none" /\ error = NoError)
          /\ ~execd.started =>
                /\ pc = "done"
                /\ result = "Err"
                /\ error.program = execd.program
                /\ error.cause \notin {"", "Success"}
                /\ (error.cause = "NotFound") =
                      (error.context = "{program} was not found in your PATH")
                /\ (error.cause = "PermissionDenied") =
                      (error.context =
                          "you don't have sufficient permissions to execute {program}")
                /\ (error.cause \notin {"NotFound", "PermissionDenied"}) =
                      (error.context = "an error occured while trying to execute {program}")

C11_Witness ==
    /\ cmd.kind = "Console"
    /\ execd.program = "psql"
    /\ error.cause = "PermissionDenied"
    /\ result = "Err"

\* C12: the search subsystem is connected to and the index is cleared only
\* after the transaction was committed successfully; when the commit fails,
\* Clear returns a failure and the index is never cleared.
C12_IndexClearedOnlyAfterCommit ==
    /\ (\/ pc \in {"meili_connect", "search_clear"}
        \/ meiliConnects > 0
        \/ indexClears > 0
        \/ index # index0) =>
          /\ tx = "committed"
          /\ Len(logs) >= 1
          /\ logs[1] = "Dropped and recreated schema 'public'"
          /\ Len(stmts) = 5
          /\ (migrateCalls = 0) => (store = EmptyPublic(config.user))
    /\ indexClears <= meiliConnects
    /\ (error.context = "failed to commit clear transaction") =>
          /\ clearResult = "Err"
          /\ result = "Err"
          /\ pc = "done"
          /\ logs = <<>>
          /\ meiliConnects = 0
          /\ indexClears = 0
          /\ index = index0

C12_Witness ==
    /\ error.context = "failed to commit clear transaction"
    /\ store # store0
    /\ index0 = "populated"

\* the statements of the clearer, in the order of the documentation
ExpectedSql ==
    <<"drop schema public cascade", "create schema public",
      "grant all on schema public to {}", "grant all on schema public to public",
      "comment on schema public is 'standard public schema'">>

StatementsInOrder ==
    ClearCommand =>
        /\ Len(stmts) <= Len(ExpectedSql)
        /\ \A i \in 1..Len(stmts) :
              /\ stmts[i].stmt.sql = ExpectedSql[i]
              /\ stmts[i].stmt.arg = IF i = 3 THEN config.user ELSE <<>>
              /\ (i < Len(stmts)) => stmts[i].ok
        /\ (stmts # <<>>) => (txCount = 1)
        /\ (stmts # <<>> /\ ~stmts[Len(stmts)].ok) => (clearResult = "Err" /\ tx = "rolledback")
        /\ (pc \in {"drop", "create", "grant_user", "grant_public", "comment", "commit"}) =>
              (tx = "open" /\ logs = <<>>)
        /\ (pc = "commit" \/ logs # <<>> \/ tx = "committed") =>
              (Len(stmts) = Len(ExpectedSql) /\ stmts[Len(stmts)].ok)

\* a statement is issued inside the transaction in which the inventory was read
IssuedInsideTheTransaction ==
    (ClearCommand /\ stmts' # stmts) =>
        /\ tx = "open"
        /\ txCount' = txCount
        /\ logs = <<>>
        /\ tables' = tables
        /\ Len(inventory) = Len(tables)
        /\ store' = store

\* C13: the statements of Clear are issued inside the one transaction opened at
\* the start (the one of the inventory, no commit in between), in the order
\* drop schema, create schema, grant to the user, grant to public, comment,
\* then commit; a later statement is issued only if every earlier one succeeded.
C13_StatementsInOrderInOneTransaction ==
    [](StatementsInOrder) /\ [][IssuedInsideTheTransaction]_vars

C13_Witness ==
    /\ cmd.kind = "Clear"
    /\ clearResult = "Ok"
    /\ Len(stmts) = 5
    /\ DOMAIN store0.tables = TableNames
    /\ config.user = B_admin

PooledCommand ==
    cmd.kind \in {"Clear", "Script", "Migrate", "Reset", "UnsafeOverwriteMigrations"}

\* C14: within one dispatch at most one transaction is open at a time and one
\* pooled connection is acquired for Clear, Script, Migrate, Reset and
\* UnsafeOverwriteMigrations; in Reset the clear transaction is committed and
\* clear has returned before Migrate starts on that connection.
C14_OneConnectionOneTransaction ==
    /\ conns <= 1
    /\ txCount <= 1
    /\ (tx # "none") => (txCount = 1 /\ conns = 1)
    /\ (PooledCommand /\ pc \notin {"run", "pool_get", "done"}) => (conns = 1)
    /\ (PooledCommand /\ pc = "done" /\ error.context \notin {"create_pool", "pool.get"}) =>
          (conns = 1 /\ pool = "created")
    /\ (cmd.kind = "Reset" /\ (pc = "migrate" \/ migrateCalls > 0)) =>
          /\ clearResult = "Ok"
          /\ tx = "committed"
          /\ txCount = 1
          /\ conns = 1
          /\ migrateCalls <= 1

C14_Witness ==
    /\ cmd.kind = "Reset"
    /\ migrateCalls = 1
    /\ result = "Ok"
    /\ tx = "committed"
    /\ conns = 1

\* C15: when creating the pool or acquiring a connection fails, run returns a
\* failure and the operation is not attempted: no transaction, no statement,
\* no prompt, search index untouched.
C15_ConnectionFailureAttemptsNothing ==
    (error.context \in {"create_pool", "pool.get"}) =>
        /\ PooledCommand
        /\ result = "Err"
        /\ pc = "done"
        /\ conns = 0
        /\ (error.context = "create_pool") = (pool = "none")
        /\ tx = "none"
        /\ txCount = 0
        /\ clearResult = "none"
        /\ stmts = <<>>
        /\ tables = <<>>
        /\ stdinReads = 0
        /\ ~script.read
        /\ migrateCalls = 0
        /\ meiliConnects = 0
        /\ indexClears = 0
        /\ index = index0
        /\ store = store0
        /\ logs = <<>>

C15_Witness ==
    /\ error.context = "pool.get"
    /\ cmd.kind = "Reset"
    /\ pool = "created"
    /\ result = "Err"

NoDuplicates(q) == \A i, j \in 1..Len(q) : (q[i] = q[j]) => (i = j)

AtMostOnce ==
    /\ conns <= 1
    /\ txCount <= 1
    /\ stdinReads <= 1
    /\ execCalls <= 1
    /\ meiliConnects <= 1
    /\ indexClears <= 1
    /\ migrateCalls <= 1
    /\ Len(inventory) <= Len(tables)
    /\ NoDuplicates([i \in 1..Len(inventory) |-> inventory[i][1]])
    /\ NoDuplicates([i \in 1..Len(stmts) |-> stmts[i].stmt.sql])
    /\ NoDuplicates(logs)
    /\ \A i \in 1..Len(stmts) : (~stmts[i].ok) => (i = Len(stmts))

SingleFailure ==
    /\ (result = "Err") = (error # NoError)
    /\ (result # "none") = (pc = "done")
    /\ (stmts # <<>> /\ ~stmts[Len(stmts)].ok) => (result = "Err")
    /\ (clearResult = "Err") => (result = "Err")

\* after the failure nothing more happens, and the failure stays the same
NothingAfterFailure == (error # NoError) => UNCHANGED vars

\* C16: the first failure of a step ends run with a single failure value: no
\* step is executed after the failed one, and no step (statement, commit,
\* index clear, exec, script) is executed more than once per invocation.
C16_FirstFailureEndsTheCommand ==
    [](AtMostOnce /\ SingleFailure) /\ [][NothingAfterFailure]_vars

C16_Witness ==
    /\ cmd.kind = "Reset"
    /\ result = "Err"
    /\ error.context = "tx.execute"
    /\ Len(stmts) = 3
    /\ migrateCalls = 0

\* C17: when the script file cannot be read, run_script returns the read
\* failure and nothing is executed; when it is read, its whole content is
\* submitted as exactly one batch, a failure of the execution is a different
\* error than the read failure, and success needs a batch that ran without error.
C17_ScriptReadThenOneBatch ==
    cmd.kind = "Script" =>
        /\ Len(stmts) <= 1
        /\ (stmts # <<>>) =>
              (script.read /\ stmts[1].stmt = [sql |-> "batch", arg |-> script.text])
        /\ (pc = "done" /\ error.context \notin {"create_pool", "pool.get"}) =>
              IF ~script.read
              THEN /\ result = "Err"
                   /\ error.context = "failed to read script file '{}'"
                   /\ stmts = <<>>
                   /\ store = store0
                   /\ logs = <<>>
              ELSE /\ Len(stmts) = 1
                   /\ (result = "Ok") = stmts[1].ok
                   /\ (result = "Err") = (error.context = "failed to execute script")
                   /\ (result = "Ok") =>
                         /\ RunBatch(script.text, store0).ok
                         /\ store = RunBatch(script.text, store0).store
                         /\ logs = <<"Successfully ran SQL script">>
                   /\ (result = "Err") => (logs = <<>>)

C17_Witness ==
    /\ cmd.kind = "Script"
    /\ result = "Err"
    /\ script.read
    /\ Len(script.text) = 2
    /\ store # store0

\* C18: in Reset, Migrate is started exactly when Clear returned success, which
\* needs the commit and the clearing of the search index to have succeeded; a
\* Reset whose index clear (or connection to the search subsystem) fails after
\* the commit ends with the public schema empty and no migration applied.
C18_ResetMigratesOnlyAfterFullClear ==
    cmd.kind = "Reset" =>
        /\ (pc = "migrate" \/ migrateCalls > 0) = (clearResult = "Ok")
        /\ (clearResult = "Ok") =>
              /\ tx = "committed"
              /\ indexClears = 1
              /\ index = "empty"
              /\ logs = <<"Dropped and recreated schema 'public'", "Cleared search index">>
        /\ (error.context \in {"meili.connect", "failed to clear search index"}) =>
              /\ pc = "done"
              /\ result = "Err"
              /\ migrateCalls = 0
              /\ tx = "committed"
              /\ store = EmptyPublic(config.user)

C18_Witness ==
    /\ cmd.kind = "Reset"
    /\ error.context = "failed to clear search index"
    /\ pc = "done"
    /\ store0.tables # <<>>
    /\ "__db_migrations" \notin DOMAIN store.tables

====
